---- MODULE Spec2Model ----
(***************************************************************************)
(* A model of the infonomy-server information market: the escrow ledger,   *)
(* the buyer counters, root-context creation, offer posting, and the       *)
(* recursive inspection task.                                              *)
(*                                                                         *)
(* Money is a float in the source; the model uses integers (no claim       *)
(* depends on rounding).  Database rows are sequences indexed by their id. *)
(* Python lists of ids (known_offers, purchased, purchased_info_offers)    *)
(* are modelled as sets of ids: the code only tests membership on them     *)
(* and sums prices over them.                                              *)
(***************************************************************************)
EXTENDS Integers, Sequences, FiniteSets, TLC

\* ------------------------------------------------------------------ bounds
MaxContexts == 4
MaxOffers == 2
MaxJobs == 2
MaxRoots == 1
MaxDay == 2
MaxRequests == 2
MaxMatchers == 2
MaxCalls == 2
MaxAttempts == 5

\* ------------------------------------------------------- program constants
max_depth == 3
max_breadth == 3
daily_bonus_amount == 10

\* ------------------------------------------------------------ input ranges
Users == {1}
BuyerProfiles == {1}
SellerProfiles == {1}
Priorities == {0, 1}
Budgets == {4, 8}
FollowupBudgets == {4}
InvalidFollowupBudgets == {-1, 16}
Prices == {2, 4}
MinBudgets == {0, 6}
MinRates == {0, 50}
HumanTargets == {{}, {2}}
BotTargets == {{}, {2}}
NoId == 0
KeyNames == {"OPENAI_API_KEY"}
Unset == "unset"
KeyValues == {"", "sk-A", "sk-B"}

VARIABLES
    users,        \* User rows: balance, available_balance, last_login_date, purchased_info_offers
    buyers,       \* HumanBuyer rows: num_queries, num_inspected, num_purchased
    matchers,     \* SellerMatcher rows
    bots,         \* BotSeller rows
    contexts,     \* DecisionContext rows
    offers,       \* InfoOffer rows
    inspections,  \* Inspection rows
    inbox,        \* MatcherInbox rows
    bot_queue,    \* contexts with a process_bot_sellers_for_context task enqueued
    jobs,         \* inspect_task invocations (the Celery jobs) with their call stack
    requests,     \* create_decision_context requests between load and commit
    response,     \* the answer to the last create, update or delete request on a context
    today,        \* the calendar day
    environ,      \* os.environ of the worker process: the value of each provider key
    llm_calls     \* temporary_api_keys blocks in progress: position, keys and saved originals

vars == <<users, buyers, matchers, bots, contexts, offers, inspections, inbox, bot_queue, jobs,
          requests, response, today, environ, llm_calls>>

\* ----------------------------------------------------------------- helpers
RECURSIVE SumPrices(_)
SumPrices(ids) ==
    IF ids = {} THEN 0
    ELSE LET o == CHOOSE x \in ids : TRUE
         IN offers[o].price + SumPrices(ids \ {o})

Last(s) == s[Len(s)]
Front(s) == SubSeq(s, 1, Len(s) - 1)

\* the DecisionContext rows that have not been deleted
ContextIds == {c \in 1..Len(contexts) : contexts[c].live}
OfferIds == 1..Len(offers)
RootIds == {c \in ContextIds : contexts[c].parent_id = NoId}
OffersOf(c) == {o \in OfferIds : offers[o].context_id = c}

\* HumanBuyer.inspection_rate / purchase_rate compared with a floor given in
\* percent: rate < floor, where rate = count / qcount if qcount else 0.0
RateBelow(count, qcount, floorPct) ==
    IF qcount = 0 THEN 0 < floorPct
    ELSE count * 100 < floorPct * qcount

\* An Optional[List[str]] column: None, or a list (possibly empty) of items.
NoneList == [is_none |-> TRUE, items |-> {}]
ListOf(items) == [is_none |-> FALSE, items |-> items]

\* `if m.keywords is not None: if not any(kw in text for kw in m.keywords):
\* continue`: any() over an empty list is False
AnyListed(list, present) == list.is_none \/ list.items \cap present # {}

\* age_limit = None (Optional[int])
NoAgeLimit == -1

\* the SQL prefilter and the Python matching of recompute_inbox_for_context
\* for one matcher m; b is the HumanBuyer row of the context's buyer
MatcherMatches(m, ctx, b) ==
    /\ ctx.max_budget >= m.min_max_budget
    /\ ctx.priority >= m.min_priority
    /\ ~(m.buyer_type # "none" /\ m.buyer_type # "human_buyer")
    /\ ~RateBelow(b.num_inspected[ctx.priority], b.num_queries[ctx.priority], m.min_inspection_rate)
    /\ ~RateBelow(b.num_purchased[ctx.priority], b.num_queries[ctx.priority], m.min_purchase_rate)
    /\ AnyListed(m.keywords, ctx.query)
    /\ AnyListed(m.context_pages, ctx.context_pages)

\* The inbox table has no uniqueness constraint on (matcher_id,
\* decision_context_id): a row carries the number of the copy it is for its
\* pair, so that two rows of one pair are two rows.
RowsOf(ib, m, c) == {r \in ib : r.matcher_id = m /\ r.decision_context_id = c}

\* db.add_all(new_items): one "new" row for each pair <<matcher, context>>
InsertRows(ib, pairs) ==
    ib \cup {[matcher_id |-> pr[1], decision_context_id |-> pr[2], status |-> "new",
              copy |-> Cardinality(RowsOf(ib, pr[1], pr[2])) + 1] : pr \in pairs}

\* the DELETE of the rows of context c
PurgeContext(ib, c) == {r \in ib : r.decision_context_id # c}

\* the DELETE of the rows of matcher m
PurgeMatcher(ib, m) == {r \in ib : r.matcher_id # m}

\* the matchers the SELECT returns (deleted rows are gone)
LiveMatchers(ms) == {k \in 1..Len(ms) : ms[k].live}

\* the matchers recompute_inbox_for_context finds for context c
MatchingMatchers(ms, ctx, b) == {k \in LiveMatchers(ms) : MatcherMatches(ms[k], ctx, b)}

\* `expires_at=now + timedelta(seconds=m.age_limit)` raises TypeError for a
\* matching matcher whose age_limit is None
FanOutRaises(ms, ctx, b) == \E m \in MatchingMatchers(ms, ctx, b) : ms[m].age_limit = NoAgeLimit

\* recompute_inbox_for_context with its purge omitted
RecomputeWithoutPurge(ib, c, ctx, b) ==
    InsertRows(ib, {<<m, c>> : m \in MatchingMatchers(matchers, ctx, b)})

\* recompute_inbox_for_context: purge the rows of context c from the inbox
\* ib (committed), then insert a fresh "new" row for every matcher that
\* matches; when building a row raises, only the purge has happened
recompute_inbox_for_context(ib, c, ctx, b) ==
    IF FanOutRaises(matchers, ctx, b)
    THEN PurgeContext(ib, c)
    ELSE InsertRows(PurgeContext(ib, c), {<<m, c>> : m \in MatchingMatchers(matchers, ctx, b)})

\* -------------------------------------------------------------------- Init
InitUser == [balance |-> 0, available_balance |-> 0, last_login_date |-> 0,
             purchased_info_offers |-> {}]
InitBuyer == [num_queries |-> [p \in Priorities |-> 0],
              num_inspected |-> [p \in Priorities |-> 0],
              num_purchased |-> [p \in Priorities |-> 0]]
InitMatchers ==
    << [seller_id |-> 1, seller_type |-> "human_seller", keywords |-> NoneList,
        context_pages |-> NoneList, min_max_budget |-> 0, min_inspection_rate |-> 0,
        min_purchase_rate |-> 0, min_priority |-> 0, buyer_type |-> "none",
        age_limit |-> 604800, live |-> TRUE] >>

\* a fixed-text bot and an LLM-backed bot of user 1, each with one matcher;
\* the LLM bot's matcher asks for a budget of at least 6
InitBotSellers ==
    << [user_id |-> 1, info |-> "text", price |-> 2, llm |-> FALSE],
       [user_id |-> 1, info |-> "none", price |-> 0, llm |-> TRUE] >>
InitBotMatchers ==
    << [InitMatchers[1] EXCEPT !.seller_id = 1, !.seller_type = "bot_seller"],
       [InitMatchers[1] EXCEPT !.seller_id = 2, !.seller_type = "bot_seller",
                               !.min_max_budget = 6] >>

\* the worker starts with no provider key in its environment
InitEnviron == [k \in KeyNames |-> Unset]

\* us: the registered users; bps: those of them with a buyer profile
InitProfiles(us, bps, ms, bs) ==
    /\ users = [u \in us |-> InitUser]
    /\ buyers = [u \in bps |-> InitBuyer]
    /\ matchers = ms
    /\ bots = bs
    /\ contexts = << >>
    /\ offers = << >>
    /\ inspections = << >>
    /\ inbox = {}
    /\ bot_queue = {}
    /\ jobs = << >>
    /\ requests = << >>
    /\ response = [status |-> 0, user |-> NoId, max_budget |-> 0, tick |-> 0]
    /\ today = 1
    /\ environ = InitEnviron
    /\ llm_calls = << >>

InitFor(us, ms, bs) == InitProfiles(us, BuyerProfiles, ms, bs)

InitWith(ms, bs) == InitFor(Users, ms, bs)

Init == InitWith(InitMatchers, << >>)

\* a second registered user, who has no buyer profile and owns no context
Strangers == {2}
InitStranger == InitFor(Users \cup Strangers, InitMatchers, << >>)

\* a second registered user with a buyer profile of their own
OtherBuyers == {2}
InitTwoBuyers ==
    InitProfiles(Users \cup OtherBuyers, BuyerProfiles \cup OtherBuyers, InitMatchers, << >>)

\* the state after the two bots and their matchers were registered
InitBots == InitWith(InitMatchers \o InitBotMatchers, InitBotSellers)

\* ------------------------------------------------- counters (utils.py)
increment_buyer_query_counter(bs, u, p) ==
    [bs EXCEPT ![u].num_queries[p] = @ + 1]
increment_buyer_inspected_counter(bs, u, p) ==
    [bs EXCEPT ![u].num_inspected[p] = @ + 1]
increment_buyer_purchased_counter(bs, u, p) ==
    [bs EXCEPT ![u].num_purchased[p] = @ + 1]

\* ------------------------------------------------- daily bonus (utils.py)
\* the User row after one call on the given day
AwardAlways(user, day) ==
    [user EXCEPT !.balance = @ + daily_bonus_amount,
                 !.available_balance = @ + daily_bonus_amount,
                 !.last_login_date = day]
daily_login_bonus(user, day) ==
    IF user.last_login_date = day THEN user
    ELSE [user EXCEPT !.balance = @ + daily_bonus_amount,
                      !.available_balance = @ + daily_bonus_amount,
                      !.last_login_date = day]

\* a login; one on a day that already gave its bonus leaves every row as it is
process_daily_login_bonus(u) ==
    /\ users[u].last_login_date # today
    /\ users' = [users EXCEPT ![u] = daily_login_bonus(@, today)]
    /\ UNCHANGED <<buyers, matchers, bots, contexts, offers, inspections, inbox, bot_queue, jobs, requests, response, today, environ, llm_calls>>

DailyBonus == \E u \in DOMAIN users : process_daily_login_bonus(u)

\* midnight passes
AdvanceDay ==
    /\ today < MaxDay
    /\ today' = today + 1
    /\ UNCHANGED <<users, buyers, matchers, bots, contexts, offers, inspections, inbox, bot_queue, jobs, requests, response,
                   environ, llm_calls>>

\* ------------------------- create_decision_context (decision_contexts.py)
\* line 42: the budget check against the loaded available_balance
ExceedsAvailable(max_budget, avail) == max_budget > avail

\* line 49: the deduction from the loaded available_balance
DeductNothing(avail, max_budget) == avail
Deduct(avail, max_budget) == avail - max_budget

Responded(status, u, max_budget) ==
    [status |-> status, user |-> u, max_budget |-> max_budget, tick |-> 1 - response.tick]

\* The handler works on the User row it loaded: `avail` is the
\* available_balance of that loaded row.  Lines 48-65: the deduction, the
\* new context row, the query counter and the inbox fan-out, which ends by
\* enqueueing the bot dispatch of the context.  human_seller_ids and
\* bot_seller_ids are the target sellers of the request (empty: none named).
create_decision_context_for(u, avail, max_budget, priority, human_seller_ids, bot_seller_ids) ==
    /\ u \in DOMAIN buyers
    /\ ~ExceedsAvailable(max_budget, avail)
    /\ Len(contexts) < MaxContexts
    /\ LET ctx == [buyer_id |-> u, max_budget |-> max_budget, priority |-> priority,
                   parent_id |-> NoId, query |-> {}, context_pages |-> {},
                   human_seller_ids |-> human_seller_ids, bot_seller_ids |-> bot_seller_ids,
                   parent_offers |-> {}, live |-> TRUE]
           c == Len(contexts) + 1
           bs == increment_buyer_query_counter(buyers, u, priority)
       IN /\ users' = [users EXCEPT ![u].available_balance = Deduct(avail, max_budget)]
          /\ contexts' = Append(contexts, ctx)
          /\ buyers' = bs
          /\ inbox' = recompute_inbox_for_context(inbox, c, ctx, bs[u])
          /\ bot_queue' = IF FanOutRaises(matchers, ctx, bs[u]) THEN bot_queue
                           ELSE bot_queue \cup {c}
          /\ response' = Responded(IF FanOutRaises(matchers, ctx, bs[u]) THEN 500 ELSE 201,
                                    u, max_budget)

\* a request that names no target sellers
create_decision_context(u, avail, max_budget, priority) ==
    create_decision_context_for(u, avail, max_budget, priority, {}, {})

\* lines 35-46: no buyer profile, or the budget exceeds the available balance:
\* HTTP 400 before anything is written
reject_decision_context(u, avail, max_budget) ==
    /\ u \notin DOMAIN buyers \/ ExceedsAvailable(max_budget, avail)
    /\ response' = Responded(400, u, max_budget)
    /\ UNCHANGED <<users, buyers, contexts, inbox, bot_queue>>

CreateDecisionContext ==
    \E u \in DOMAIN users, b \in Budgets, p \in Priorities :
        /\ Cardinality(RootIds) < MaxRoots
        /\ create_decision_context(u, users[u].available_balance, b, p)
        /\ UNCHANGED <<matchers, bots, offers, inspections, jobs, requests, today, environ, llm_calls>>

\* a request that names target sellers
CreateTargetedContext ==
    \E u \in DOMAIN users, b \in Budgets, p \in Priorities, hs \in HumanTargets, bs \in BotTargets :
        /\ hs # {} \/ bs # {}
        /\ Cardinality(RootIds) < MaxRoots
        /\ create_decision_context_for(u, users[u].available_balance, b, p, hs, bs)
        /\ UNCHANGED <<matchers, bots, offers, inspections, jobs, requests, today, environ, llm_calls>>

\* update_decision_context: get_context_for_buyer admits the owner only; the
\* fields the client sent are set (here max_budget, or none at all) and the
\* inbox of the context is recomputed.  The escrow is not touched.
\* get_context_for_buyer (utils.py), the dependency of the update and delete
\* handlers: the status it lets the request go on with
AllowAnyUser(u, c) == IF c \notin ContextIds THEN 404 ELSE 200
get_context_for_buyer(u, c) ==
    IF c \notin ContextIds THEN 404
    ELSE IF contexts[c].buyer_id # u THEN 403
    ELSE 200

\* the handler's writes; the caller says what becomes of the response
update_context_rows(u, c, updates) ==
    /\ get_context_for_buyer(u, c) = 200
    /\ LET ctx == IF updates.set THEN [contexts[c] EXCEPT !.max_budget = updates.max_budget]
                  ELSE contexts[c]
       IN /\ contexts' = [contexts EXCEPT ![c] = ctx]
          /\ inbox' = recompute_inbox_for_context(inbox, c, ctx, buyers[ctx.buyer_id])
          /\ bot_queue' = bot_queue \cup {c}
    /\ UNCHANGED <<users, buyers, matchers, bots, offers, inspections, jobs, requests, today, environ, llm_calls>>

update_decision_context(u, c, updates) ==
    /\ update_context_rows(u, c, updates)
    /\ UNCHANGED response

\* the same request with its answer recorded
update_decision_context_answered(u, c, updates) ==
    /\ update_context_rows(u, c, updates)
    /\ response' = Responded(200, u, contexts'[c].max_budget)

\* delete_decision_context: the context's inbox rows go, then the row itself;
\* the handler touches no User row, no Inspection row and no Celery task
delete_decision_context(u, c) ==
    /\ get_context_for_buyer(u, c) = 200
    /\ inbox' = PurgeContext(inbox, c)
    /\ contexts' = [contexts EXCEPT ![c].live = FALSE]
    /\ response' = Responded(204, u, contexts[c].max_budget)
    /\ UNCHANGED <<users, buyers, matchers, bots, offers, inspections, bot_queue, jobs, requests,
                   today, environ, llm_calls>>

\* an update or a delete that the dependency stops: 404 or 403, nothing written
refuse_context_request(u, c) ==
    /\ get_context_for_buyer(u, c) # 200
    /\ response' = Responded(get_context_for_buyer(u, c), u, 0)
    /\ UNCHANGED <<users, buyers, matchers, bots, contexts, offers, inspections, inbox, bot_queue,
                   jobs, requests, today, environ, llm_calls>>

ContextUpdates == {[set |-> FALSE, max_budget |-> 0]} \cup {[set |-> TRUE, max_budget |-> b] : b \in Budgets}

UpdateContextAnswered ==
    \E u \in DOMAIN users, c \in 1..Len(contexts), updates \in ContextUpdates :
        update_decision_context_answered(u, c, updates)

DeleteDecisionContext ==
    \E u \in DOMAIN users, c \in 1..Len(contexts) : delete_decision_context(u, c)

RefuseContextRequest ==
    \E u \in DOMAIN users, c \in 1..Len(contexts) : refuse_context_request(u, c)

UpdateDecisionContext ==
    \E u \in DOMAIN users, c \in ContextIds, updates \in ContextUpdates :
        update_decision_context(u, c, updates)

\* update_decision_context with another request running beside it:
\* recompute_inbox_for_context deletes the context's rows and commits
\* (BeginRefreshContext), and later selects the matchers and inserts the fresh
\* rows in a second transaction (FinishRefreshContext).  The request sends no
\* field.
BeginRefreshContext ==
    \E u \in DOMAIN users, c \in ContextIds :
        /\ contexts[c].buyer_id = u
        /\ Len(requests) < MaxRequests
        /\ inbox' = PurgeContext(inbox, c)
        /\ requests' = Append(requests, [user |-> u, context |-> c, state |-> "purged"])
        /\ UNCHANGED <<users, buyers, matchers, bots, contexts, offers, inspections, bot_queue, jobs,
                       response, today, environ, llm_calls>>

FinishRefreshContext ==
    \E r \in 1..Len(requests) :
        /\ requests[r].state = "purged"
        /\ LET c == requests[r].context
               ctx == contexts[c]
           IN /\ inbox' = InsertRows(inbox, {<<m, c>> : m \in MatchingMatchers(matchers, ctx,
                                                                               buyers[ctx.buyer_id])})
              /\ bot_queue' = bot_queue \cup {c}
        /\ requests' = [requests EXCEPT ![r].state = "refreshed"]
        /\ UNCHANGED <<users, buyers, matchers, bots, contexts, offers, inspections, jobs, response, today, environ, llm_calls>>

\* ------------------------------------------- matcher CRUD (profiles.py)
\* the SQL prefilter of recompute_inbox_for_matcher
CandidateContexts(matcher) ==
    {c \in ContextIds : /\ contexts[c].max_budget >= matcher.min_max_budget
                        /\ contexts[c].priority >= matcher.min_priority}

\* recompute_inbox_for_matcher: purge the rows of matcher m, then insert a
\* "new" row for every candidate context that is not a child and matches.
\* (Every context of the model is younger than the matcher's age_limit.)
\* The purge is not committed on its own: when building a row raises
\* (age_limit None), the session is rolled back and the inbox is as before.
MatchedContexts(matcher) ==
    {k \in CandidateContexts(matcher) :
        /\ contexts[k].parent_id = NoId
        /\ MatcherMatches(matcher, contexts[k], buyers[contexts[k].buyer_id])}

MatcherFanOutRaises(matcher) ==
    matcher.age_limit = NoAgeLimit /\ MatchedContexts(matcher) # {}

recompute_inbox_for_matcher(ib, m, matcher) ==
    IF MatcherFanOutRaises(matcher)
    THEN ib
    ELSE InsertRows(PurgeMatcher(ib, m), {<<m, c>> : c \in MatchedContexts(matcher)})

\* step 5 of recompute_inbox_for_matcher: a bot seller's matcher enqueues the
\* bot dispatch of every candidate root context
DispatchForMatcher(q, matcher) ==
    IF matcher.seller_type = "bot_seller" /\ ~MatcherFanOutRaises(matcher)
    THEN q \cup {c \in CandidateContexts(matcher) : contexts[c].parent_id = NoId}
    ELSE q

NewMatcher(seller_id, seller_type, min_max_budget, min_inspection_rate) ==
    [seller_id |-> seller_id, seller_type |-> seller_type, keywords |-> NoneList,
     context_pages |-> NoneList, min_max_budget |-> min_max_budget,
     min_inspection_rate |-> min_inspection_rate, min_purchase_rate |-> 0,
     min_priority |-> 0, buyer_type |-> "none", age_limit |-> 604800, live |-> TRUE]

create_human_seller_matcher(u, min_max_budget, min_inspection_rate) ==
    /\ u \in SellerProfiles
    /\ Len(matchers) < MaxMatchers
    /\ LET matcher == NewMatcher(u, "human_seller", min_max_budget, min_inspection_rate)
           m == Len(matchers) + 1
       IN /\ matchers' = Append(matchers, matcher)
          /\ inbox' = recompute_inbox_for_matcher(inbox, m, matcher)
          /\ bot_queue' = DispatchForMatcher(bot_queue, matcher)
    /\ UNCHANGED <<users, buyers, bots, contexts, offers, inspections, jobs, requests, response, today, environ, llm_calls>>

update_human_seller_matcher(u, m, min_max_budget, min_inspection_rate) ==
    /\ u \in SellerProfiles
    /\ m \in LiveMatchers(matchers)
    /\ matchers[m].seller_id = u /\ matchers[m].seller_type = "human_seller"
    /\ LET matcher == [matchers[m] EXCEPT !.min_max_budget = min_max_budget,
                                          !.min_inspection_rate = min_inspection_rate]
       IN /\ matchers' = [matchers EXCEPT ![m] = matcher]
          /\ inbox' = recompute_inbox_for_matcher(inbox, m, matcher)
          /\ bot_queue' = DispatchForMatcher(bot_queue, matcher)
    /\ UNCHANGED <<users, buyers, bots, contexts, offers, inspections, jobs, requests, response, today, environ, llm_calls>>

\* remove_matcher_from_inboxes, then the matcher row is deleted
delete_human_seller_matcher(u, m) ==
    /\ u \in SellerProfiles
    /\ m \in LiveMatchers(matchers)
    /\ matchers[m].seller_id = u /\ matchers[m].seller_type = "human_seller"
    /\ inbox' = PurgeMatcher(inbox, m)
    /\ matchers' = [matchers EXCEPT ![m].live = FALSE]
    /\ UNCHANGED <<users, buyers, bots, contexts, offers, inspections, bot_queue, jobs, requests,
                   response, today, environ, llm_calls>>

CreateMatcher ==
    \E u \in DOMAIN users, mb \in MinBudgets, mr \in MinRates :
        create_human_seller_matcher(u, mb, mr)

\* POST /profiles/matchers with the predicates the request leaves unset or
\* empty: SellerMatcher(**matcher.dict(), ...), commit, then the fan-out; when
\* the fan-out raises, the matcher row is already committed
create_matcher_with(u, keywords, context_pages, age_limit) ==
    /\ u \in SellerProfiles
    /\ Len(matchers) < MaxMatchers
    /\ LET matcher == [NewMatcher(u, "human_seller", 0, 0) EXCEPT
                          !.keywords = keywords, !.context_pages = context_pages,
                          !.age_limit = age_limit]
           m == Len(matchers) + 1
       IN /\ matchers' = Append(matchers, matcher)
          /\ inbox' = recompute_inbox_for_matcher(inbox, m, matcher)
          /\ bot_queue' = DispatchForMatcher(bot_queue, matcher)
          /\ response' = Responded(IF MatcherFanOutRaises(matcher) THEN 500 ELSE 200, u, 0)
    /\ UNCHANGED <<users, buyers, bots, contexts, offers, inspections, jobs, requests, today, environ, llm_calls>>

OptionalLists == {NoneList, ListOf({})}
OptionalAgeLimits == {604800, NoAgeLimit}

CreateOpenMatcher ==
    \E u \in DOMAIN users, kw \in OptionalLists, pages \in OptionalLists,
       age \in OptionalAgeLimits :
        create_matcher_with(u, kw, pages, age)

UpdateMatcher ==
    \E u \in DOMAIN users, m \in 1..Len(matchers), mb \in MinBudgets, mr \in MinRates :
        update_human_seller_matcher(u, m, mb, mr)

DeleteMatcher ==
    \E u \in DOMAIN users, m \in 1..Len(matchers) : delete_human_seller_matcher(u, m)

RejectDecisionContext ==
    \E u \in DOMAIN users, b \in Budgets :
        /\ reject_decision_context(u, users[u].available_balance, b)
        /\ UNCHANGED <<matchers, bots, offers, inspections, jobs, requests, today, environ, llm_calls>>

\* Two requests in flight: each loads the User row (BeginCreate), then checks
\* and commits on the row it loaded (CommitCreate); nothing locks the row and
\* the UPDATE writes the value computed from the loaded one.
BeginCreate ==
    \E u \in DOMAIN users, b \in Budgets, p \in Priorities :
        /\ Len(requests) < MaxRequests
        /\ requests' = Append(requests, [user |-> u, avail |-> users[u].available_balance,
                                         max_budget |-> b, priority |-> p, state |-> "loaded"])
        /\ UNCHANGED <<users, buyers, matchers, bots, contexts, offers, inspections, inbox, bot_queue, jobs,
                       response, today, environ, llm_calls>>

CommitCreate ==
    \E r \in 1..Len(requests) :
        /\ requests[r].state = "loaded"
        /\ create_decision_context(requests[r].user, requests[r].avail,
                                   requests[r].max_budget, requests[r].priority)
        /\ requests' = [requests EXCEPT ![r].state = "created"]
        /\ UNCHANGED <<matchers, bots, offers, inspections, jobs, today, environ, llm_calls>>

RefuseCreate ==
    \E r \in 1..Len(requests) :
        /\ requests[r].state = "loaded"
        /\ reject_decision_context(requests[r].user, requests[r].avail, requests[r].max_budget)
        /\ requests' = [requests EXCEPT ![r].state = "refused"]
        /\ UNCHANGED <<matchers, bots, offers, inspections, jobs, today, environ, llm_calls>>

\* -------------------------------------- create_info_offer (info_offers.py)
\* HumanSeller.matchers (models.py): the property is a stub that returns [];
\* set_seller_property_methods, which would replace it by a query, is not
\* called anywhere, so `matcher_ids` is empty for every seller
SellerMatcherIds(u) == {}

\* step 4: the rows of the context whose matcher_id is in matcher_ids are set
\* to "responded"
create_info_offer(u, c, price) ==
    /\ c \in ContextIds
    /\ u \in SellerProfiles
    /\ Len(offers) < MaxOffers
    /\ offers' = Append(offers, [context_id |-> c, price |-> price, human_seller_id |-> u,
                                 bot_seller_id |-> NoId, private_info |-> "info",
                                 inspected |-> FALSE, purchased |-> FALSE])
    /\ inbox' = {IF r.decision_context_id = c /\ r.matcher_id \in SellerMatcherIds(u)
                 THEN [r EXCEPT !.status = "responded"] ELSE r : r \in inbox}
    /\ UNCHANGED <<users, buyers, matchers, bots, contexts, inspections, bot_queue, jobs, requests,
                   response, today, environ, llm_calls>>

CreateInfoOffer ==
    \E u \in DOMAIN users, c \in ContextIds, price \in Prices : create_info_offer(u, c, price)

\* -------------------------------------- update_info_offer (info_offers.py)
\* the setattr loop over the fields InfoOfferUpdate carries (private_info,
\* public_info, price): the flags inspected and purchased are not among them
UpdateAlsoMarksPurchased(offer, price) == [offer EXCEPT !.price = price, !.purchased = TRUE]
ApplyOfferUpdate(offer, price) == [offer EXCEPT !.price = price]

\* c is the context id of the path, which the handler uses for the inbox rows
update_info_offer(u, c, o, price) ==
    /\ o \in OfferIds
    /\ u \in SellerProfiles
    /\ offers[o].human_seller_id = u
    /\ offers' = [offers EXCEPT ![o] = ApplyOfferUpdate(@, price)]
    /\ inbox' = {IF r.decision_context_id = c /\ r.matcher_id \in SellerMatcherIds(u)
                 THEN [r EXCEPT !.status = "responded"] ELSE r : r \in inbox}
    /\ UNCHANGED <<users, buyers, matchers, bots, contexts, inspections, bot_queue, jobs, requests,
                   response, today, environ, llm_calls>>

UpdateInfoOffer ==
    \E u \in DOMAIN users, c \in ContextIds, o \in OfferIds, price \in Prices :
        update_info_offer(u, c, o, price)

\* ------------------------------------------- reading the inbox (inbox.py)
\* GET /sellers/{seller_id}/inbox: the contexts of the rows with status "new"
\* whose matcher_id is in the seller's matcher_ids (no test of expires_at);
\* with no matcher_ids the handler returns [] before the query
read_decision_contexts_for_seller(u) ==
    {r.decision_context_id : r \in {x \in inbox : /\ x.matcher_id \in SellerMatcherIds(u)
                                                  /\ x.status = "new"}}

\* ------------------------------------------ reading offers (info_offers.py)
\* InfoOffer.seller (models.py): the property is a stub that returns None
NoSeller == [type |-> "none", id |-> NoId, user_id |-> NoId]
Seller(offer) == NoSeller

\* The two read handlers change nothing; each is the function from the rows
\* and the requester to the response: the status and the offers whose
\* private_info the body carries. Reading an attribute of None raises, which
\* the framework answers with 500.
read_info_offer(u, o) ==
    IF o \notin OfferIds THEN [status |-> 404, private |-> {}]
    ELSE LET offer == offers[o]
             seller == Seller(offer)
         IN IF seller = NoSeller THEN [status |-> 500, private |-> {}]
            ELSE LET is_human_seller == seller.type = "human_seller" /\ seller.id = u
                     is_bot_seller == seller.type = "bot_seller" /\ seller.user_id = u
                     is_buyer_who_purchased ==
                         offer.purchased /\ contexts[offer.context_id].buyer_id = u
                 IN [status |-> 200,
                     private |-> IF is_human_seller \/ is_bot_seller \/ is_buyer_who_purchased
                                 THEN {o} ELSE {}]

\* the list handler gives the private schema to the human seller only; the
\* buyer who purchased and everyone else get the public one
read_info_offers_for_decision_context(u, c) ==
    IF c \notin ContextIds THEN [status |-> 404, private |-> {}]
    ELSE IF \E o \in OffersOf(c) : Seller(offers[o]) = NoSeller
         THEN [status |-> 500, private |-> {}]
         ELSE [status |-> 200,
               private |-> {o \in OffersOf(c) :
                               /\ Seller(offers[o]).type = "human_seller"
                               /\ Seller(offers[o]).id = u}]

\* ------------------------------ process_bot_sellers_for_context (tasks.py)
\* what the LLM client does for one bot: a structured answer with a price, or
\* an exception (call failed, timed out, or the answer did not parse)
BotLlmOutcomes == {[ok |-> TRUE, price |-> 2], [ok |-> TRUE, price |-> 16], [ok |-> FALSE, price |-> 0]}

\* _call_bot_seller_llm: the client's exception is re-raised inside and caught
\* by the outer handler, which returns the fallback triple: an error text as
\* private_info and price 0.0
call_bot_seller_llm(outcome) ==
    IF outcome.ok THEN [private_info |-> "info", price |-> outcome.price]
    ELSE [private_info |-> "error", price |-> 0]

Min(a, b) == IF a < b THEN a ELSE b

BotOffer(bot_seller_id, c, private_info, price) ==
    [context_id |-> c, price |-> price, human_seller_id |-> NoId,
     bot_seller_id |-> bot_seller_id, private_info |-> private_info,
     inspected |-> FALSE, purchased |-> FALSE]

\* _generate_bot_seller_offer: the offers (none or one) of one bot for context c
generate_bot_seller_offer(bot_seller_id, c, outcome) ==
    LET bot_seller == bots[bot_seller_id]
    IN IF bot_seller.info # "none"
       THEN << BotOffer(bot_seller_id, c, bot_seller.info, bot_seller.price) >>
       ELSE IF bot_seller.llm
       THEN LET r == call_bot_seller_llm(outcome)
            IN << BotOffer(bot_seller_id, c, r.private_info, Min(r.price, contexts[c].max_budget)) >>
       ELSE << >>

\* _matcher_matches_context (every context of the model is within the age limit)
matcher_matches_context(matcher, ctx) ==
    /\ ctx.buyer_id \in DOMAIN buyers
    /\ MatcherMatches(matcher, ctx, buyers[ctx.buyer_id])

RECURSIVE GenerateOffers(_, _, _)
\* the loop over the bot matchers, from matcher k on; outcomes[k] is what the
\* LLM client does when matcher k's bot calls it
GenerateOffers(k, c, outcomes) ==
    IF k > Len(matchers) THEN << >>
    ELSE LET matcher == matchers[k]
         IN IF /\ matcher.live
               /\ matcher.seller_type = "bot_seller"
               /\ matcher_matches_context(matcher, contexts[c])
               /\ matcher.seller_id \in 1..Len(bots)
            THEN generate_bot_seller_offer(matcher.seller_id, c, outcomes[k])
                     \o GenerateOffers(k + 1, c, outcomes)
            ELSE GenerateOffers(k + 1, c, outcomes)

process_bot_sellers_for_context(c, outcomes) ==
    /\ c \in bot_queue
    /\ LET new == GenerateOffers(1, c, outcomes)
       IN /\ Len(offers) + Len(new) <= MaxOffers
          /\ offers' = offers \o new
    /\ bot_queue' = bot_queue \ {c}
    /\ UNCHANGED <<users, buyers, matchers, bots, contexts, inspections, inbox, jobs, requests,
                   response, today, environ, llm_calls>>

ProcessBotSellers ==
    \E c \in ContextIds, outcomes \in [1..Len(matchers) -> BotLlmOutcomes] :
        process_bot_sellers_for_context(c, outcomes)

\* ----------------------------------------- create_inspection (inspection.py)
\* Any authenticated user may start an inspection of any existing context.
\* An empty id list means "all offers of the context".
NewFrame(i, depth, breadth) ==
    [inspection_id |-> i, depth |-> depth, breadth |-> breadth, pc |-> "start",
     child_ctx |-> NoId, ret |-> {}, attempts |-> 0]

NewInspection(c, u, known, info, elder) ==
    [decision_context_id |-> c, buyer_id |-> u, known_offers |-> known, purchased |-> {},
     info_offers |-> info, elder_brother_id |-> elder, younger_brother_id |-> NoId,
     child_context_id |-> NoId]

\* A job: the root inspection it was enqueued for, the stack of its recursive
\* calls, its Celery state and result; and, kept for the record, the nodes of
\* the inspection tree it built, how often it added max_budget back to
\* available_balance, the buyer counters when it started, whether it is a
\* re-delivery, and the jobs in flight when it started.
NewJob(i, redelivery) ==
    [inspection_id |-> i, stack |-> <<NewFrame(i, 0, 0)>>, state |-> "running",
     result |-> {}, nodes |-> {i}, released |-> 0,
     at_start |-> IF inspections'[i].buyer_id \in DOMAIN buyers
                  THEN buyers[inspections'[i].buyer_id] ELSE InitBuyer,
     redelivery |-> redelivery,
     overlapped |-> {j \in 1..Len(jobs) : jobs[j].state = "running"}]

create_inspection(u, c, ids) ==
    /\ c \in ContextIds
    /\ ids \subseteq OffersOf(c)
    /\ Len(jobs) < MaxJobs
    /\ LET i == Len(inspections) + 1
           info == IF ids = {} THEN OffersOf(c) ELSE ids
       IN /\ inspections' = Append(inspections,
                 NewInspection(c, u, users[u].purchased_info_offers, info, NoId))
          /\ jobs' = Append(jobs, NewJob(i, FALSE))
    /\ UNCHANGED <<users, buyers, matchers, bots, contexts, offers, inbox, bot_queue, requests, response, today, environ, llm_calls>>

\* no inspect_task invocation is in flight
NoJobRunning == \A j \in 1..Len(jobs) : jobs[j].state # "running"

\* the main specification runs the inspection jobs one at a time
CreateInspection ==
    \E u \in DOMAIN users, c \in ContextIds, ids \in SUBSET OfferIds :
        NoJobRunning /\ create_inspection(u, c, ids)

\* the first inspection of a context, over all the offers it has
CreateFirstInspection ==
    \E u \in DOMAIN users, c \in ContextIds :
        /\ NoJobRunning
        /\ \A i \in 1..Len(inspections) : inspections[i].decision_context_id # c
        /\ create_inspection(u, c, {})

\* inspections may be started while another job is in flight
CreateInspectionConcurrent ==
    \E u \in DOMAIN users, c \in ContextIds, ids \in SUBSET OfferIds : create_inspection(u, c, ids)

\* ------------------------------------------------- inspect_task (tasks.py)
\* A job is one Celery invocation of inspect_task; its recursive calls are the
\* frames of its stack (the last frame is the running call).
Top(j) == Last(jobs[j].stack)
TopInspection(j) == inspections[Top(j).inspection_id]
Running(j, pc) == jobs[j].state = "running" /\ Top(j).pc = pc

RECURSIVE PopBrothers(_)
\* `return inspect_task(brother, ...)`: a call waiting for its younger brother
\* returns the brother's value unchanged
PopBrothers(s) ==
    IF s # << >> /\ Last(s).pc = "brother" THEN PopBrothers(Front(s)) ELSE s

\* the running call returns r: the job ends, or the call that recursed into
\* a child inspection receives r as child_purchased
Return(js, j, r) ==
    LET s1 == PopBrothers(Front(js[j].stack))
    IN IF s1 = << >>
       THEN [js EXCEPT ![j].stack = << >>, ![j].state = "done", ![j].result = r]
       ELSE [js EXCEPT ![j].stack = [s1 EXCEPT ![Len(s1)].pc = "child_ret",
                                               ![Len(s1)].ret = r]]

\* the record that job j added max_budget back to available_balance
Released(js, j) == [js EXCEPT ![j].released = @ + 1]

\* user.available_balance += ctx.max_budget
RestoreBudget(us, u, max_budget) ==
    [us EXCEPT ![u].available_balance = @ + max_budget]

\* `if depth == 0:`, the guard of every ledger and counter write of inspect_task
EveryLevel(depth) == TRUE
IsTopLevel(depth) == depth = 0

\* lines 364-406: the bound check, the loads and the empty-offer return
TaskStart(j) ==
    /\ Running(j, "start")
    /\ LET f == Top(j)
           insp == TopInspection(j)
           ctx == contexts[insp.decision_context_id]
           u == insp.buyer_id
       IN IF f.depth >= max_depth \/ f.breadth >= max_breadth
          THEN IF IsTopLevel(f.depth)
               THEN /\ users' = IF ctx.live THEN RestoreBudget(users, u, ctx.max_budget) ELSE users
                    /\ jobs' = Return(IF ctx.live THEN Released(jobs, j) ELSE jobs, j, insp.purchased)
               ELSE /\ users' = users
                    /\ jobs' = Return(jobs, j, {})
          ELSE IF ~ctx.live \/ u \notin DOMAIN buyers
          THEN /\ users' = users
               /\ jobs' = Return(jobs, j, insp.purchased)
          ELSE IF insp.info_offers = {}
          THEN /\ users' = IF IsTopLevel(f.depth) THEN RestoreBudget(users, u, ctx.max_budget) ELSE users
               /\ jobs' = Return(IF IsTopLevel(f.depth) THEN Released(jobs, j) ELSE jobs, j, insp.purchased)
          ELSE /\ users' = users
               /\ jobs' = [jobs EXCEPT ![j].stack[Len(jobs[j].stack)].pc = "llm"]
    /\ UNCHANGED <<buyers, matchers, bots, contexts, offers, inspections, inbox, bot_queue, requests, response, today, environ, llm_calls>>

\* call_llm (llm.py): the validation of a purchase decision
ValidChosen(ctx, offer_ids, known_info, chosen) ==
    /\ chosen # {}
    /\ chosen \subseteq offer_ids
    /\ ~(SumPrices(chosen) > ctx.max_budget - SumPrices(known_info))

\* call_llm (llm.py): the validation of a follow-up decision
ValidFollowup(ctx, known_info, budget) ==
    ~(budget > ctx.max_budget - SumPrices(known_info) \/ budget < 0)

\* inspect_task passes known_info=[] to call_llm
KnownInfoPassed(insp) == {}

\* the ledger change of the purchase branch at depth 0 (lines 441-445)
SettlePurchase(us, u, total_cost, max_budget) ==
    [us EXCEPT ![u].balance = @ - total_cost,
               ![u].available_balance = @ + max_budget]

\* lines 408-452: the agent picked offers
LlmChoose(j) ==
    /\ Running(j, "llm")
    /\ LET f == Top(j)
           i == f.inspection_id
           insp == inspections[i]
           ctx == contexts[insp.decision_context_id]
           u == insp.buyer_id
       IN \E chosen \in SUBSET insp.info_offers :
            /\ ValidChosen(ctx, insp.info_offers, KnownInfoPassed(insp), chosen)
            /\ inspections' = [inspections EXCEPT ![i].purchased = @ \cup chosen]
            /\ LET us == [users EXCEPT ![u].purchased_info_offers = @ \cup chosen]
               IN users' = IF IsTopLevel(f.depth)
                           THEN SettlePurchase(us, u, SumPrices(chosen), ctx.max_budget)
                           ELSE us
            /\ buyers' = IF IsTopLevel(f.depth)
                         THEN increment_buyer_purchased_counter(
                                  increment_buyer_inspected_counter(buyers, u, ctx.priority),
                                  u, ctx.priority)
                         ELSE buyers
            /\ jobs' = Return(IF IsTopLevel(f.depth) THEN Released(jobs, j) ELSE jobs, j, chosen)
    /\ UNCHANGED <<matchers, bots, contexts, offers, inbox, bot_queue, requests, response, today, environ, llm_calls>>

\* lines 408-421 and 455-473: the agent asked a follow-up; the child context
\* is stored and fanned out, and the call starts polling for its offers
\* (DecisionContext(...) in call_llm names no parent_offers and nothing adds
\* any before the row is stored: the relationship of the child is empty.)
LlmFollowup(j) ==
    /\ Running(j, "llm")
    /\ Len(contexts) < MaxContexts
    /\ LET f == Top(j)
           i == f.inspection_id
           insp == inspections[i]
           ctx == contexts[insp.decision_context_id]
           u == insp.buyer_id
           c == Len(contexts) + 1
       IN \E budget \in FollowupBudgets :
            /\ ValidFollowup(ctx, KnownInfoPassed(insp), budget)
            /\ LET child_ctx == [buyer_id |-> ctx.buyer_id, max_budget |-> budget, priority |-> 1,
                                 parent_id |-> insp.decision_context_id, query |-> {},
                                 context_pages |-> ctx.context_pages,
                                 human_seller_ids |-> ctx.human_seller_ids,
                                 bot_seller_ids |-> ctx.bot_seller_ids,
                                 parent_offers |-> {}, live |-> TRUE]
                   bs == IF IsTopLevel(f.depth)
                         THEN increment_buyer_inspected_counter(buyers, u, ctx.priority)
                         ELSE buyers
               IN /\ buyers' = bs
                  /\ contexts' = Append(contexts, child_ctx)
                  /\ inbox' = recompute_inbox_for_context(inbox, c, child_ctx, bs[ctx.buyer_id])
                  /\ bot_queue' = bot_queue \cup {c}
            /\ inspections' = [inspections EXCEPT ![i].child_context_id = c]
            /\ jobs' = [jobs EXCEPT ![j].stack[Len(jobs[j].stack)].pc = "poll",
                                    ![j].stack[Len(jobs[j].stack)].child_ctx = c]
    /\ UNCHANGED <<users, matchers, bots, offers, requests, response, today, environ, llm_calls>>

\* call_llm's `while not accept` loop. A response is one of: a list of chosen
\* ids (which may name an offer that was not presented), a follow-up query
\* with a budget, or neither of the two.
AgentDecisions(insp) ==
    {[kind |-> "choose", chosen |-> ch, budget |-> 0] :
        ch \in SUBSET (insp.info_offers \cup {Len(offers) + 1})}
    \cup {[kind |-> "followup", chosen |-> {}, budget |-> b] :
            b \in FollowupBudgets \cup InvalidFollowupBudgets}
    \cup {[kind |-> "neither", chosen |-> {}, budget |-> 0]}

\* the responses that do not set accept: the loop goes round again
Rejected(ctx, insp, d) ==
    CASE d.kind = "choose" -> ~ValidChosen(ctx, insp.info_offers, KnownInfoPassed(insp), d.chosen)
      [] d.kind = "followup" -> ~ValidFollowup(ctx, KnownInfoPassed(insp), d.budget)
      [] OTHER -> TRUE

\* a rejected response: the error message is appended (for a response with
\* neither branch, nothing is) and the loop continues. attempts counts the
\* rejected responses of the node, up to MaxAttempts.
LlmInvalid(j) ==
    /\ Running(j, "llm")
    /\ LET insp == TopInspection(j)
           ctx == contexts[insp.decision_context_id]
       IN \E d \in AgentDecisions(insp) : Rejected(ctx, insp, d)
    /\ jobs' = [jobs EXCEPT ![j].stack[Len(jobs[j].stack)].pc = "rejected",
                            ![j].stack[Len(jobs[j].stack)].attempts =
                                IF @ < MaxAttempts THEN @ + 1 ELSE @]
    /\ UNCHANGED <<users, buyers, matchers, bots, contexts, offers, inspections, inbox, bot_queue, requests, response, today, environ, llm_calls>>

\* the next round of the loop: the provider is called with the longer prompt
LlmReprompt(j) ==
    /\ Running(j, "rejected")
    /\ jobs' = [jobs EXCEPT ![j].stack[Len(jobs[j].stack)].pc = "llm"]
    /\ UNCHANGED <<users, buyers, matchers, bots, contexts, offers, inspections, inbox, bot_queue, requests, response, today, environ, llm_calls>>

\* lines 584-593: the agent call raised; the task logs and re-raises
LlmRaise(j) ==
    /\ Running(j, "llm")
    /\ jobs' = [jobs EXCEPT ![j].state = "failed"]
    /\ UNCHANGED <<users, buyers, matchers, bots, contexts, offers, inspections, inbox, bot_queue, requests, response, today, environ, llm_calls>>

\* lines 492-537: the poll ends (an offer exists, or the deadline passed); the
\* child inspection gets every offer of the child context and is recursed into
PollDone(j) ==
    /\ Running(j, "poll")
    /\ LET f == Top(j)
           insp == TopInspection(j)
           k == Len(inspections) + 1
           n == Len(jobs[j].stack)
       IN /\ inspections' = Append(inspections,
                 NewInspection(f.child_ctx, insp.buyer_id, insp.known_offers,
                               OffersOf(f.child_ctx), NoId))
          /\ jobs' = [jobs EXCEPT ![j].stack = Append([@ EXCEPT ![n].pc = "child"],
                                                      NewFrame(k, f.depth + 1, f.breadth)),
                                  ![j].nodes = @ \cup {k}]
    /\ UNCHANGED <<users, buyers, matchers, bots, contexts, offers, inbox, bot_queue, requests, response, today, environ, llm_calls>>

\* lines 540 and 546: current_purchased = inspection.purchased +
\* child_purchased; known_offers = inspection.known_offers + current_purchased
KeepKnownOffers(insp, child_purchased) == insp.known_offers
ExpandKnownOffers(insp, child_purchased) ==
    insp.known_offers \cup (insp.purchased \cup child_purchased)

\* lines 539-572: the child returned; the younger brother is created with the
\* expanded known_offers and the same offers, and recursed into
SpawnBrother(j) ==
    /\ Running(j, "child_ret")
    /\ LET f == Top(j)
           i == f.inspection_id
           insp == inspections[i]
           k == Len(inspections) + 1
           n == Len(jobs[j].stack)
       IN /\ inspections' = Append([inspections EXCEPT ![i].younger_brother_id = k],
                 NewInspection(insp.decision_context_id, insp.buyer_id,
                               ExpandKnownOffers(insp, f.ret),
                               insp.info_offers, i))
          /\ jobs' = [jobs EXCEPT ![j].stack = Append([@ EXCEPT ![n].pc = "brother"],
                                                      NewFrame(k, f.depth, f.breadth + 1)),
                                  ![j].nodes = @ \cup {k}]
    /\ UNCHANGED <<users, buyers, matchers, bots, contexts, offers, inbox, bot_queue, requests, response, today, environ, llm_calls>>

\* the task queue delivers the job of a finished inspection again
Redeliver(j) ==
    /\ jobs[j].state = "done"
    /\ Len(jobs) < MaxJobs
    /\ UNCHANGED <<users, buyers, matchers, bots, contexts, offers, inspections, inbox, bot_queue, requests, response, today, environ, llm_calls>>
    /\ jobs' = Append(jobs, NewJob(jobs[j].inspection_id, TRUE))

JobIds == 1..Len(jobs)
InspectTaskStart == \E j \in JobIds : TaskStart(j)
InspectLlmChoose == \E j \in JobIds : LlmChoose(j)
InspectLlmFollowup == \E j \in JobIds : LlmFollowup(j)
InspectLlmRaise == \E j \in JobIds : LlmRaise(j)
InspectPollDone == \E j \in JobIds : PollDone(j)
InspectSpawnBrother == \E j \in JobIds : SpawnBrother(j)
InspectLlmInvalid == \E j \in JobIds : LlmInvalid(j)
InspectLlmReprompt == \E j \in JobIds : LlmReprompt(j)
InspectRedeliver == \E j \in JobIds : Redeliver(j)

\* ------------------------------------------- temporary_api_keys (utils.py)
\* An LLM call is a `with temporary_api_keys(api_keys)` block around the
\* provider call. os.environ belongs to the process, so the blocks of two
\* calls that run in one worker process at the same time read and write the
\* same mapping; nothing serialises them.
NotSaved == "not saved"

\* a call starts with the api_keys of its user
begin_llm_call(api_keys) ==
    /\ Len(llm_calls) < MaxCalls
    /\ llm_calls' = Append(llm_calls, [api_keys |-> api_keys, pc |-> "enter",
                                        original_values |-> [k \in KeyNames |-> NotSaved],
                                        seen |-> [k \in KeyNames |-> Unset],
                                        raised |-> FALSE])
    /\ UNCHANGED <<users, buyers, matchers, bots, contexts, offers, inspections, inbox, bot_queue, jobs,
                   requests, response, today, environ>>

\* the try block: each non-empty key's current value is saved, then overwritten
enter_api_keys(n) ==
    /\ llm_calls[n].pc = "enter"
    /\ LET api_keys == llm_calls[n].api_keys
       IN /\ llm_calls' = [llm_calls EXCEPT
                 ![n].original_values = [k \in KeyNames |->
                                            IF api_keys[k] # "" THEN environ[k] ELSE NotSaved],
                 ![n].pc = "inside"]
          /\ environ' = [k \in KeyNames |-> IF api_keys[k] # "" THEN api_keys[k] ELSE environ[k]]
    /\ UNCHANGED <<users, buyers, matchers, bots, contexts, offers, inspections, inbox, bot_queue, jobs,
                   requests, response, today>>

\* the body: the provider client takes the credentials from the environment
\* as it is when the request is made; the request answers or raises
call_provider(n, raises) ==
    /\ llm_calls[n].pc = "inside"
    /\ llm_calls' = [llm_calls EXCEPT ![n].seen = environ, ![n].raised = raises,
                                      ![n].pc = "exit"]
    /\ UNCHANGED <<users, buyers, matchers, bots, contexts, offers, inspections, inbox, bot_queue, jobs,
                   requests, response, today, environ>>

\* the finally block: a saved None pops the key, a saved value is written back
exit_api_keys(n) ==
    /\ llm_calls[n].pc = "exit"
    /\ environ' = [k \in KeyNames |->
                      IF llm_calls[n].original_values[k] = NotSaved THEN environ[k]
                      ELSE llm_calls[n].original_values[k]]
    /\ llm_calls' = [llm_calls EXCEPT ![n].pc = "done"]
    /\ UNCHANGED <<users, buyers, matchers, bots, contexts, offers, inspections, inbox, bot_queue, jobs,
                   requests, response, today>>

BeginLlmCall == \E api_keys \in [KeyNames -> KeyValues] : begin_llm_call(api_keys)
EnterApiKeys == \E n \in 1..Len(llm_calls) : enter_api_keys(n)
CallProvider == \E n \in 1..Len(llm_calls), raises \in BOOLEAN : call_provider(n, raises)
ExitApiKeys == \E n \in 1..Len(llm_calls) : exit_api_keys(n)

Next ==
    \/ DailyBonus
    \/ CreateDecisionContext
    \/ RejectDecisionContext
    \/ CreateInfoOffer
    \/ CreateInspection
    \/ InspectTaskStart
    \/ InspectLlmChoose
    \/ InspectLlmFollowup
    \/ InspectLlmRaise
    \/ InspectPollDone
    \/ InspectSpawnBrother

Spec == Init /\ [][Next]_vars

\* the ledger operations alone: bonus, creation, rejection, and the refund of
\* an inspection that finds no offers
NextEscrow ==
    \/ DailyBonus
    \/ AdvanceDay
    \/ CreateDecisionContext
    \/ RejectDecisionContext
    \/ CreateInspection
    \/ InspectTaskStart

SpecEscrow == Init /\ [][NextEscrow]_vars

\* the inbox and what keeps it current: context create and update, matcher
\* create, update and delete, offers, and inspections that buy
NextInbox ==
    \/ DailyBonus
    \/ CreateDecisionContext
    \/ UpdateDecisionContext
    \/ CreateMatcher
    \/ UpdateMatcher
    \/ DeleteMatcher
    \/ CreateInfoOffer
    \/ CreateInspection
    \/ InspectTaskStart
    \/ InspectLlmChoose

SpecInbox == Init /\ [][NextInbox]_vars

\* the fan-out of a context, run again and again
NextFanOut ==
    \/ DailyBonus
    \/ CreateDecisionContext
    \/ UpdateDecisionContext
    \/ UpdateMatcher
    \/ CreateInfoOffer

SpecFanOut == Init /\ [][NextFanOut]_vars

\* bot dispatch: contexts created (with or without target sellers) and
\* updated, human offers, and the dispatch task
NextBots ==
    \/ DailyBonus
    \/ CreateDecisionContext
    \/ CreateTargetedContext
    \/ UpdateDecisionContext
    \/ CreateInfoOffer
    \/ ProcessBotSellers

SpecBots == InitBots /\ [][NextBots]_vars

\* a context refresh in two transactions beside matcher updates
NextInboxRace ==
    \/ DailyBonus
    \/ CreateDecisionContext
    \/ BeginRefreshContext
    \/ FinishRefreshContext
    \/ UpdateMatcher

SpecInboxRace == Init /\ [][NextInboxRace]_vars

\* at-least-once delivery and replayed inspections: jobs overlap
NextReplay ==
    \/ DailyBonus
    \/ CreateDecisionContext
    \/ CreateInfoOffer
    \/ CreateInspectionConcurrent
    \/ InspectTaskStart
    \/ InspectLlmChoose
    \/ InspectRedeliver

SpecReplay == Init /\ [][NextReplay]_vars

\* concurrent create_decision_context requests
NextRace ==
    \/ DailyBonus
    \/ BeginCreate
    \/ CommitCreate
    \/ RefuseCreate

SpecRace == Init /\ [][NextRace]_vars

\* The life of an offer: created, updated by its seller, inspected and bought;
\* each context is inspected once, over all its offers.
NextOffers ==
    \/ DailyBonus
    \/ CreateDecisionContext
    \/ CreateInfoOffer
    \/ UpdateInfoOffer
    \/ CreateFirstInspection
    \/ InspectTaskStart
    \/ InspectLlmChoose

SpecOffers == Init /\ [][NextOffers]_vars

\* LLM calls that overlap in one worker process.
NextKeys ==
    \/ BeginLlmCall
    \/ EnterApiKeys
    \/ CallProvider
    \/ ExitApiKeys

SpecKeys == Init /\ [][NextKeys]_vars

\* Contexts updated and deleted by their buyer, and the same requests made by
\* another user.
NextOwner ==
    \/ DailyBonus
    \/ CreateDecisionContext
    \/ CreateInfoOffer
    \/ UpdateContextAnswered
    \/ DeleteDecisionContext
    \/ RefuseContextRequest

SpecOwner == InitStranger /\ [][NextOwner]_vars

\* A context deleted while its inspection job is queued or waits on the agent.
NextDelete ==
    \/ DailyBonus
    \/ CreateDecisionContext
    \/ CreateInfoOffer
    \/ CreateInspection
    \/ InspectTaskStart
    \/ DeleteDecisionContext

SpecDelete == Init /\ [][NextDelete]_vars

\* One inspection per context with an agent whose responses may fail
\* validation. The worker keeps running a job it has taken.
NextAgent ==
    \/ DailyBonus
    \/ CreateDecisionContext
    \/ CreateInfoOffer
    \/ CreateFirstInspection
    \/ InspectTaskStart
    \/ InspectLlmInvalid
    \/ InspectLlmReprompt
    \/ InspectLlmChoose

AgentJobStep ==
    \/ InspectTaskStart
    \/ InspectLlmInvalid
    \/ InspectLlmReprompt
    \/ InspectLlmChoose

SpecAgent == Init /\ [][NextAgent]_vars /\ WF_vars(AgentJobStep)

\* One inspection per context, followed through the whole tree: follow-up
\* contexts, their offers, child inspections and younger brothers.
NextTree ==
    \/ DailyBonus
    \/ CreateDecisionContext
    \/ CreateInfoOffer
    \/ CreateFirstInspection
    \/ InspectTaskStart
    \/ InspectLlmChoose
    \/ InspectLlmFollowup
    \/ InspectPollDone
    \/ InspectSpawnBrother

SpecTree == Init /\ [][NextTree]_vars

\* subscriptions with unset or empty predicates, and the contexts they meet
NextOpen ==
    \/ DailyBonus
    \/ CreateDecisionContext
    \/ CreateOpenMatcher
    \/ DeleteMatcher
    \/ DeleteDecisionContext

SpecOpen == Init /\ [][NextOpen]_vars

\* two buyers: either may start an inspection of the other's context
NextGuest ==
    \/ DailyBonus
    \/ CreateDecisionContext
    \/ CreateInfoOffer
    \/ CreateFirstInspection
    \/ InspectTaskStart
    \/ InspectLlmChoose

SpecGuest == InitTwoBuyers /\ [][NextGuest]_vars

\* the same commands when the second user has no buyer profile
SpecStranger == InitStranger /\ [][NextGuest]_vars

\* one root context, updated before its first inspection runs
NextUpdate ==
    \/ DailyBonus
    \/ CreateDecisionContext
    \/ UpdateDecisionContext
    \/ CreateInfoOffer
    \/ CreateFirstInspection
    \/ InspectTaskStart
    \/ InspectLlmChoose

SpecUpdate == Init /\ [][NextUpdate]_vars






\* ================================================================== claims
JobBuyer(j) == inspections[jobs[j].inspection_id].buyer_id
JobContext(j) == contexts[inspections[jobs[j].inspection_id].decision_context_id]

\* every offer id in the purchased list of a node of job j's inspection tree
TreePurchased(insps, j) == UNION {insps[n].purchased : n \in jobs[j].nodes}

\* job j ends in this step
JobEnds(j) == jobs[j].state = "running" /\ jobs'[j].state = "done"

RECURSIVE SumBudgets(_)
SumBudgets(cs) ==
    IF cs = {} THEN 0
    ELSE LET c == CHOOSE x \in cs : TRUE
         IN contexts[c].max_budget + SumBudgets(cs \ {c})

\* C1: for every user, 0 <= available_balance <= total balance, in every
\* state reached by context creations, inspection jobs and bonus awards.
C1_BalanceInvariant ==
    \A u \in DOMAIN users :
        /\ 0 <= users[u].available_balance
        /\ users[u].available_balance <= users[u].balance

\* C2: a create request whose max_budget exceeds the buyer's available_balance
\* is rejected and leaves the balances, the counters, the contexts and the
\* inbox unchanged; any other request lowers available_balance by exactly
\* max_budget and leaves the total balance unchanged.
C2_CreateContract ==
    [][response'.tick # response.tick =>
        LET u == response'.user
            b == response'.max_budget
        IN IF b > users[u].available_balance
           THEN /\ response'.status = 400
                /\ users' = users
                /\ buyers' = buyers
                /\ contexts' = contexts
                /\ inbox' = inbox
           ELSE /\ response'.status = 201
                /\ users'[u].available_balance = users[u].available_balance - b
                /\ users'[u].balance = users[u].balance]_vars

\* C2 witness: a request was rejected after an earlier one had escrowed a budget
C2_Witness ==
    /\ response.status = 400
    /\ Len(contexts) >= 1
    /\ users[response.user].available_balance < users[response.user].balance

\* C3: when a root inspection completes with purchases of total cost spent,
\* the total balance decreases by spent and available_balance increases by
\* max_budget - spent.
C3_SettleOnPurchase ==
    [][\A j \in 1..Len(jobs) :
        (JobEnds(j) /\ jobs'[j].result # {}) =>
            LET u == JobBuyer(j)
                spent == SumPrices(jobs'[j].result)
            IN /\ users'[u].balance = users[u].balance - spent
               /\ users'[u].available_balance =
                      users[u].available_balance + (JobContext(j).max_budget - spent)]_vars

\* C4: when a root inspection job ends with no purchases, available_balance
\* increases by exactly max_budget, the total balance is unchanged, and over
\* the job inspected[priority] rose by 1 and purchased[priority] not at all.
C4_RefundOnNoPurchase ==
    [][\A j \in 1..Len(jobs) :
        (JobEnds(j) /\ jobs'[j].result = {}) =>
            LET u == JobBuyer(j)
                p == JobContext(j).priority
            IN /\ users'[u].balance = users[u].balance
               /\ users'[u].available_balance =
                      users[u].available_balance + JobContext(j).max_budget
               /\ buyers'[u].num_inspected[p] = jobs[j].at_start.num_inspected[p] + 1
               /\ buyers'[u].num_purchased[p] = jobs[j].at_start.num_purchased[p]]_vars

\* C5: at root settlement the amount charged to the total balance is the sum
\* of the prices of all offers purchased anywhere in the inspection tree.
C5_ChargeWholeTree ==
    [][\A j \in 1..Len(jobs) :
        JobEnds(j) =>
            users[JobBuyer(j)].balance - users'[JobBuyer(j)].balance
                = SumPrices(TreePurchased(inspections', j))]_vars

\* C6: for every inspection tree, the prices of all offers purchased in the
\* tree sum to at most the root context's max_budget.
C6_TreeWithinBudget ==
    \A j \in 1..Len(jobs) :
        SumPrices(TreePurchased(inspections, j)) <= JobContext(j).max_budget

\* C7: no finished or failed root inspection job leaves max_budget still
\* deducted from available_balance: it has released the escrow.
C7_EscrowReconciled ==
    \A j \in 1..Len(jobs) :
        jobs[j].state \in {"done", "failed"} => jobs[j].released >= 1

\* C8: a re-delivered job of a completed inspection changes neither the
\* balances nor the queries/inspected/purchased counters.
C8_RedeliveryIsNoOp ==
    [][\A j \in 1..Len(jobs) :
        (jobs[j].redelivery /\ jobs'[j] # jobs[j]) =>
            /\ users'[JobBuyer(j)].balance = users[JobBuyer(j)].balance
            /\ users'[JobBuyer(j)].available_balance = users[JobBuyer(j)].available_balance
            /\ buyers' = buyers]_vars

\* C9: of two inspections of the same context that ran concurrently, at most
\* one purchases a given offer.
C9_SingleWinner ==
    \A j \in 1..Len(jobs) : \A k \in jobs[j].overlapped :
        (/\ ~jobs[j].redelivery
         /\ ~jobs[k].redelivery
         /\ inspections[jobs[j].inspection_id].decision_context_id
                = inspections[jobs[k].inspection_id].decision_context_id)
        => jobs[j].result \cap jobs[k].result = {}

\* C10: concurrent creations by one user never escrow more than the
\* available balance and lose no deduction: with no inspection run yet,
\* available_balance is the total balance minus the budgets of the user's
\* root contexts, and it is never negative.
C10_AtomicEscrow ==
    \A u \in DOMAIN users :
        /\ users[u].available_balance
               = users[u].balance - SumBudgets({c \in RootIds : contexts[c].buyer_id = u})
        /\ users[u].available_balance >= 0

\* C11: for every buyer and priority p, inspected[p] <= queries[p] and
\* purchased[p] <= inspected[p], in every state reached by context creations
\* and inspection jobs.
C11_CounterOrder ==
    \A u \in DOMAIN buyers : \A p \in Priorities :
        /\ buyers[u].num_inspected[p] <= buyers[u].num_queries[p]
        /\ buyers[u].num_purchased[p] <= buyers[u].num_inspected[p]

\* the running call of job j is a child or a brother step
InChildOrBrother(j) ==
    /\ jobs[j].state = "running"
    /\ Top(j).depth > 0 \/ Top(j).breadth > 0

\* C12: a step of a child or brother call increments neither inspected nor
\* purchased, and a root job that ends has raised inspected[priority] by
\* exactly one and purchased[priority] by at most one, and by one only when
\* something was bought.
C12_CountOncePerRoot ==
    [][\A j \in 1..Len(jobs) :
        LET u == JobBuyer(j)
            p == JobContext(j).priority
        IN /\ InChildOrBrother(j) =>
                /\ buyers'[u].num_inspected = buyers[u].num_inspected
                /\ buyers'[u].num_purchased = buyers[u].num_purchased
           /\ JobEnds(j) =>
                /\ buyers'[u].num_inspected[p] = jobs[j].at_start.num_inspected[p] + 1
                /\ buyers'[u].num_purchased[p] <= jobs[j].at_start.num_purchased[p] + 1
                /\ buyers'[u].num_purchased[p] > jobs[j].at_start.num_purchased[p]
                       => TreePurchased(inspections', j) # {}]_vars

\* C15: no inbox row exists for a context whose parent_id is set.
C15_NoChildFanOut ==
    \A r \in inbox : contexts[r.decision_context_id].parent_id = NoId

\* C20: every offer id in an inspection's purchased list names an offer row
\* whose purchased flag is true.
C20_PurchasedFlagSet ==
    \A i \in 1..Len(inspections) : \A o \in inspections[i].purchased : offers[o].purchased

\* C13: each pair of a live matcher and a root context has exactly one inbox
\* row when the matcher's predicates are satisfied by the context and its
\* buyer, and no row otherwise; a deleted matcher has no rows.
C13_InboxMatchesPredicates ==
    \A m \in 1..Len(matchers) : \A c \in RootIds :
        Cardinality(RowsOf(inbox, m, c)) =
            IF matchers[m].live /\ MatcherMatches(matchers[m], contexts[c], buyers[contexts[c].buyer_id])
            THEN 1 ELSE 0

\* C14: the inbox never holds two rows for the same pair of matcher and
\* context, however a refresh by context and a refresh by matcher interleave.
C14_NoDuplicateRows ==
    \A m \in 1..Len(matchers) : \A c \in ContextIds : Cardinality(RowsOf(inbox, m, c)) <= 1

\* the inbox after the fan-out of context c has run on inbox ib
FanOut(ib, c) == recompute_inbox_for_context(ib, c, contexts[c], buyers[contexts[c].buyer_id])

\* C16: running the fan-out of an unchanged context twice in a row leaves the
\* same inbox rows as running it once.
C16_FanOutIdempotent ==
    \A c \in ContextIds : FanOut(FanOut(inbox, c), c) = FanOut(inbox, c)

\* C16 witness: a context that has an inbox row, whose fan-out purges that
\* row and writes a row for it again
C16_Witness ==
    \E c \in ContextIds :
        /\ \E r \in inbox : r.decision_context_id = c
        /\ PurgeContext(inbox, c) # inbox
        /\ \E r \in FanOut(FanOut(inbox, c), c) : r.decision_context_id = c

\* the context names target sellers
Targeted(ctx) == ctx.human_seller_ids # {} \/ ctx.bot_seller_ids # {}

\* the seller of matcher m is among the targets of ctx
MatcherTargeted(m, ctx) ==
    IF m.seller_type = "human_seller" THEN m.seller_id \in ctx.human_seller_ids
    ELSE m.seller_id \in ctx.bot_seller_ids

\* C17: for a context that names target sellers, no inbox row belongs to a
\* matcher of a seller outside the targets, and no bot offer comes from a bot
\* outside the targets.
C17_TargetsBypassFanOut ==
    /\ \A r \in inbox :
           Targeted(contexts[r.decision_context_id])
               => MatcherTargeted(matchers[r.matcher_id], contexts[r.decision_context_id])
    /\ \A o \in OfferIds :
           (offers[o].bot_seller_id # NoId /\ Targeted(contexts[offers[o].context_id]))
               => offers[o].bot_seller_id \in contexts[offers[o].context_id].bot_seller_ids

\* C18: no offer carries an error text: a bot whose LLM call or parse failed
\* has no offer on the context.
C18_NoErrorOffer ==
    \A o \in OfferIds : offers[o].private_info # "error"

\* the seller of an offer
OfferSeller(o) ==
    IF offers[o].bot_seller_id # NoId THEN <<"bot_seller", offers[o].bot_seller_id>>
    ELSE <<"human_seller", offers[o].human_seller_id>>

\* C19: there is at most one offer per pair of seller and context.
C19_OneOfferPerSellerContext ==
    \A o1, o2 \in OfferIds :
        (OfferSeller(o1) = OfferSeller(o2) /\ offers[o1].context_id = offers[o2].context_id)
            => o1 = o2

Entitled(u, o) ==
    \/ offers[o].human_seller_id = u
    \/ offers[o].bot_seller_id # NoId /\ bots[offers[o].bot_seller_id].user_id = u
    \/ offers[o].purchased /\ contexts[offers[o].context_id].buyer_id = u

\* C22: every read of an offer, by the single-offer handler and by the list
\* handler, carries the offer's private_info exactly when the requester is
\* entitled to it.
C22_PrivateIffEntitled ==
    \A u \in DOMAIN users : \A o \in OfferIds :
        /\ o \in read_info_offer(u, o).private <=> Entitled(u, o)
        /\ o \in read_info_offers_for_decision_context(u, offers[o].context_id).private
               <=> Entitled(u, o)

\* C23: each LLM call makes its provider request with its own credentials,
\* and once every call has ended (by an answer or by an exception) each
\* environment variable has the value it had before the calls.
C23_CredentialsScoped ==
    /\ \A n \in 1..Len(llm_calls) : \A k \in KeyNames :
           llm_calls[n].pc \in {"exit", "done"} /\ llm_calls[n].api_keys[k] # ""
               => llm_calls[n].seen[k] = llm_calls[n].api_keys[k]
    /\ (\A n \in 1..Len(llm_calls) : llm_calls[n].pc = "done") => environ = InitEnviron

\* C24: the daily bonus is idempotent per calendar day. From any user row, the
\* first call of a day adds daily_bonus_amount to both balances and records
\* the day, a further call on that day returns the row unchanged, and a call
\* on the next day awards again.
C24_DailyBonusIdempotent ==
    \A u \in DOMAIN users :
        LET row == users[u]
            once == daily_login_bonus(row, today)
            again == daily_login_bonus(once, today)
            later == daily_login_bonus(once, today + 1)
        IN /\ again = once
           /\ once.last_login_date = today
           /\ IF row.last_login_date = today THEN once = row
              ELSE /\ once.balance = row.balance + daily_bonus_amount
                   /\ once.available_balance = row.available_balance + daily_bonus_amount
           /\ later.balance = once.balance + daily_bonus_amount
           /\ later.available_balance = once.available_balance + daily_bonus_amount
           /\ later.last_login_date = today + 1

\* a user who took the bonus of day 1 and the bonus of day 2
C24_Witness ==
    \E u \in DOMAIN users :
        /\ today = 2
        /\ users[u].last_login_date = today
        /\ users[u].balance = 2 * daily_bonus_amount

\* C25: a step that deletes a root context whose inspection job is in flight
\* ends the job and adds the context's max_budget to the buyer's
\* available_balance; a job whose context is deleted changes no User row and
\* no purchased list afterwards.
C25_DeleteCancelsAndRefunds ==
    [][/\ \A c \in 1..Len(contexts) : \A j \in 1..Len(jobs) :
              /\ contexts[c].live /\ ~contexts'[c].live
              /\ contexts[c].parent_id = NoId
              /\ jobs[j].state = "running"
              /\ inspections[jobs[j].inspection_id].decision_context_id = c
              => /\ users'[contexts[c].buyer_id].available_balance
                        = users[contexts[c].buyer_id].available_balance + contexts[c].max_budget
                 /\ jobs'[j].state # "running"
       /\ \A j \in 1..Len(jobs) :
              ~JobContext(j).live /\ jobs'[j] # jobs[j]
              => /\ users' = users
                 /\ \A i \in 1..Len(inspections) :
                        inspections'[i].purchased = inspections[i].purchased]_vars

\* C26: an update or a delete of a context by a user who is not its buyer is
\* answered 403 and leaves contexts, inbox rows, offers and balances as they
\* were; a context changes only in a step answered to its buyer.
C26_NonOwnerRefused ==
    [][/\ response' # response /\ response'.status = 403
          => /\ contexts' = contexts /\ inbox' = inbox /\ offers' = offers
             /\ users' = users /\ buyers' = buyers
       /\ \A c \in 1..Len(contexts) :
              contexts'[c] # contexts[c]
              => /\ response' # response
                 /\ response'.status \in {200, 204}
                 /\ response'.user = contexts[c].buyer_id
       /\ \A u \in DOMAIN users : \A c \in ContextIds :
              contexts[c].buyer_id # u => get_context_for_buyer(u, c) = 403]_vars

\* user 2 was refused on a context of user 1 that has an inbox row and an offer
C26_Witness ==
    /\ response.status = 403
    /\ response.user = 2
    /\ \E c \in ContextIds :
           /\ contexts[c].buyer_id = 1
           /\ \E r \in inbox : r.decision_context_id = c
           /\ OffersOf(c) # {}

\* C27: every inspection job terminates: from some point on no job is running.
C27_JobsTerminate ==
    <>[](\A j \in 1..Len(jobs) : jobs[j].state # "running")

\* C28: the agent is re-prompted at most 4 times (agent_max_retries) on a
\* node: no node ever has more than 4 rejected responses.
C28_RetriesCapped ==
    \A j \in 1..Len(jobs) : \A n \in 1..Len(jobs[j].stack) : jobs[j].stack[n].attempts <= 4

\* C29: every decision the engine acts on fits the node's remaining budget,
\* the context's max_budget less the prices of the node's known_offers: the
\* offers bought are among those presented and cost no more than that, and a
\* follow-up context gets a budget between 0 and that.
C29_WithinRemainingBudget ==
    [][\A i \in 1..Len(inspections) :
          LET insp == inspections[i]
              ctx == contexts[insp.decision_context_id]
              budget_remaining == ctx.max_budget - SumPrices(insp.known_offers)
              chosen == inspections'[i].purchased \ insp.purchased
          IN /\ chosen # {}
                => /\ chosen \subseteq insp.info_offers
                   /\ SumPrices(chosen) <= budget_remaining
             /\ insp.child_context_id = NoId /\ inspections'[i].child_context_id # NoId
                => /\ contexts'[inspections'[i].child_context_id].max_budget >= 0
                   /\ contexts'[inspections'[i].child_context_id].max_budget <= budget_remaining]_vars

\* The match decision of each of the three code paths for matcher m and
\* context ctx of buyer row b, when the context is `age` seconds old.
Ages == {0, 604800, 604801}

\* `if age_seconds > matcher.age_limit: continue`
WithinAgeLimit(m, age) == ~(age > m.age_limit)

\* recompute_inbox_for_context: no age check, and child contexts take part
MatchInRefreshByContext(m, ctx, b, age) == MatcherMatches(m, ctx, b)

\* recompute_inbox_for_matcher: child contexts are skipped, the age is checked
MatchInRefreshByMatcher(m, ctx, b, age) ==
    /\ ctx.parent_id = NoId
    /\ MatcherMatches(m, ctx, b)
    /\ WithinAgeLimit(m, age)

\* _matcher_matches_context: the age is checked, child contexts take part
MatchInBotDispatch(m, ctx, b, age) ==
    /\ matcher_matches_context(m, ctx)
    /\ WithinAgeLimit(m, age)

\* C30: for every matcher, context and clock value, the refresh by context,
\* the refresh by subscription and the bot dispatcher reach the same match
\* decision.
C30_SameMatchDecision ==
    \A m \in LiveMatchers(matchers) : \A c \in ContextIds : \A age \in Ages :
        LET ctx == contexts[c]
            b == buyers[ctx.buyer_id]
        IN /\ MatchInRefreshByContext(matchers[m], ctx, b, age)
                = MatchInRefreshByMatcher(matchers[m], ctx, b, age)
           /\ MatchInRefreshByMatcher(matchers[m], ctx, b, age)
                = MatchInBotDispatch(matchers[m], ctx, b, age)

\* the ledger and the counters of buyer u
Ledger(us, bs, u) ==
    <<us[u].balance, us[u].available_balance,
      IF u \in DOMAIN bs THEN bs[u] ELSE InitBuyer>>

Unconstrained(list) == list.is_none \/ list.items = {}

\* matcher m with its keyword and page predicates taken away
WithoutListPredicates(m) == [m EXCEPT !.keywords = NoneList, !.context_pages = NoneList]

\* C32: a subscription whose keywords or context_pages are None or empty, or
\* whose age_limit is None, is not constrained on that axis: every live root
\* context that passes its other predicates has an inbox row for it.
C32_UnsetPredicateMatchesAll ==
    \A m \in LiveMatchers(matchers), c \in RootIds :
        /\ Unconstrained(matchers[m].keywords)
        /\ Unconstrained(matchers[m].context_pages)
        /\ MatcherMatches(WithoutListPredicates(matchers[m]), contexts[c],
                          buyers[contexts[c].buyer_id])
        => RowsOf(inbox, m, c) # {}


\* the subscriptions of human seller u, as the matcher table records them
SubscriptionsOf(u) ==
    {m \in LiveMatchers(matchers) : /\ matchers[m].seller_type = "human_seller"
                                    /\ matchers[m].seller_id = u}

\* C33: once a human seller has an offer on context X, every inbox row of the
\* seller's subscriptions for X has status responded.
C33_OfferMarksResponded ==
    \A o \in OfferIds :
        offers[o].human_seller_id # NoId
        => \A r \in inbox :
               /\ r.decision_context_id = offers[o].context_id
               /\ r.matcher_id \in SubscriptionsOf(offers[o].human_seller_id)
               => r.status = "responded"

\* the inspection node whose follow-up created context c
SpawnedBy(c) == {k \in 1..Len(inspections) : inspections[k].child_context_id = c}

\* a child context has the inspected context as parent, its buyer and
\* its pages, and priority 1.
ChildInherits ==
    \A c \in ContextIds : \A k \in SpawnedBy(c) :
        LET parent == contexts[inspections[k].decision_context_id]
        IN /\ contexts[c].parent_id = inspections[k].decision_context_id
           /\ contexts[c].buyer_id = parent.buyer_id
           /\ contexts[c].context_pages = parent.context_pages
           /\ contexts[c].priority = 1

\* C34: a child context's parent_offers are the offers that were presented
\* to the agent in the step that spawned it.
C34_ChildParentOffers ==
    \A c \in ContextIds : \A k \in SpawnedBy(c) :
        /\ ChildInherits
        /\ contexts[c].parent_offers = inspections[k].info_offers

\* the value the child inspection returned to the call that is about to
\* create the younger brother of inspection e
ChildReturn(e) ==
    UNION {Top(j).ret : j \in {x \in 1..Len(jobs) : /\ Running(x, "child_ret")
                                                    /\ Top(x).inspection_id = e}}

\* C35: along every elder-to-younger brother edge the two nodes present the
\* same offers and the younger's known_offers contain the elder's
\* known_offers and the elder's purchased list; when the edge is created they
\* also contain what the elder's child inspection returned.
C35_BrotherEdge ==
    [][\A k \in 1..Len(inspections') :
          LET e == inspections'[k].elder_brother_id
          IN e # NoId
             => /\ inspections'[k].info_offers = inspections'[e].info_offers
                /\ inspections'[e].known_offers \subseteq inspections'[k].known_offers
                /\ inspections'[e].purchased \subseteq inspections'[k].known_offers
                /\ inspections'[e].younger_brother_id = k
                /\ k > Len(inspections) => ChildReturn(e) \subseteq inspections'[k].known_offers]_vars

\* C35 witness: a brother edge whose younger node knows an offer the elder
\* did not: the elder's child inspection bought it
C35_Witness ==
    \E k \in 1..Len(inspections) :
        /\ inspections[k].elder_brother_id # NoId
        /\ inspections[k].known_offers # inspections[inspections[k].elder_brother_id].known_offers

\* C36: a step of an inspection job that was started on a context by a user
\* who is not the context's buyer leaves that user's balance,
\* available_balance and buyer counters unchanged.
C36_RequesterUntouched ==
    [][\A j \in 1..Len(jobs) :
          /\ jobs[j].state = "running"
          /\ jobs'[j] # jobs[j]
          /\ JobBuyer(j) # JobContext(j).buyer_id
          => Ledger(users', buyers', JobBuyer(j)) = Ledger(users, buyers, JobBuyer(j))]_vars

\* what is held back from user u: with one root context and nothing bought
\* yet, the amount deducted when that context was created
Escrowed(u) == users[u].balance - users[u].available_balance

\* C37: the step in which the job of a root context adds to its buyer's
\* available_balance adds exactly what was deducted at creation.
C37_ReleaseEqualsEscrow ==
    [][\A j \in 1..Len(jobs) :
          jobs'[j].released > jobs[j].released
          => LET u == JobBuyer(j)
             IN users'[u].available_balance - users[u].available_balance = Escrowed(u)]_vars

\* C38: a job that has ended without an exception has released the escrow
\* exactly once, and the step that released it was a step of a depth-0 node
\* with no younger brother.
C38_ReleasedOnceByLastBrother ==
    [][\A j \in 1..Len(jobs') :
          /\ jobs'[j].state = "done" => jobs'[j].released = 1
          /\ j <= Len(jobs) /\ jobs'[j].released > jobs[j].released
             => /\ Top(j).depth = 0
                /\ inspections'[Top(j).inspection_id].younger_brother_id = NoId
                /\ jobs'[j].state = "done"]_vars

====
